---------------------------- MODULE Spec2Model ----------------------------
(***************************************************************************)
(* A model of fastbound_importer.py: the column resolver build_mapping and *)
(* the part of main that consumes its result (output columns, the Missing  *)
(* & Guidance table, the strict exit status).                              *)
(*                                                                         *)
(* Strings are sequences of one-character strings, so that norm, the       *)
(* similarity ratio and the string order are computed, not assumed.        *)
(* Python's None is the value None below; "" is the empty sequence.        *)
(***************************************************************************)
EXTENDS Integers, Sequences, FiniteSets, TLC

\* ------------------------------------------------------------------------
\* Bounds of the model (sizes of the inputs that are enumerated)
\* ------------------------------------------------------------------------
MaxSources == 2
MaxTargets == 2
MaxOverrides == 1

\* ------------------------------------------------------------------------
\* Characters and strings
\* ------------------------------------------------------------------------
UpperChars ==
  <<"A","B","C","D","E","F","G","H","I","J","K","L","M",
    "N","O","P","Q","R","S","T","U","V","W","X","Y","Z">>

LowerChars ==
  <<"a","b","c","d","e","f","g","h","i","j","k","l","m",
    "n","o","p","q","r","s","t","u","v","w","x","y","z">>

DigitChars ==
  <<"0","1","2","3","4","5","6","7","8","9">>

Range(s) == {s[p] : p \in DOMAIN s}

UpperSet == Range(UpperChars)

AlnumSet == Range(UpperChars) \cup Range(LowerChars) \cup Range(DigitChars)

\* str.lower() on one character
lower(ch) ==
  IF ch \in UpperSet
  THEN LowerChars[CHOOSE p \in DOMAIN UpperChars : UpperChars[p] = ch]
  ELSE ch

\* str.isalnum() on one character
isalnum(ch) == ch \in AlnumSet

\* ''.join(ch for ch in str(s).lower() if ch.isalnum())
norm(s) ==
  LET low == [p \in DOMAIN s |-> lower(s[p])]
  IN  SelectSeq(low, isalnum)

\* The order of characters by code point, for the characters a normalized
\* key can hold (digits < upper case < lower case).
OrdChars == DigitChars \o UpperChars \o LowerChars

ord(ch) == CHOOSE p \in DOMAIN OrdChars : OrdChars[p] = ch

\* Python's str < str: lexicographic by code point, a proper prefix is smaller.
RECURSIVE StrLess(_, _)
StrLess(x, y) ==
  IF y = <<>> THEN FALSE
  ELSE IF x = <<>> THEN TRUE
  ELSE IF x[1] # y[1] THEN ord(x[1]) < ord(y[1])
  ELSE StrLess(Tail(x), Tail(y))

\* Python's None, and the truth value of a mapped source (None and "" are false)
None == <<"None">>

Truthy(v) == v # None /\ v # <<>>

\* ------------------------------------------------------------------------
\* Python dicts: insertion-ordered sequences of [k, v]
\* ------------------------------------------------------------------------
DictHas(d, key) == \E i \in DOMAIN d : d[i].k = key

DictAt(d, key) == d[CHOOSE i \in DOMAIN d : d[i].k = key].v

\* dict.get(key): None when the key is absent
DictGet(d, key) == IF DictHas(d, key) THEN DictAt(d, key) ELSE None

\* d[key] = val: a new key is appended, an old key keeps its place
DictSet(d, key, val) ==
  IF DictHas(d, key)
  THEN [i \in DOMAIN d |-> IF d[i].k = key THEN [k |-> key, v |-> val] ELSE d[i]]
  ELSE Append(d, [k |-> key, v |-> val])

DictKeys(d) == [i \in DOMAIN d |-> d[i].k]

\* ------------------------------------------------------------------------
\* The alias table
\* ------------------------------------------------------------------------
ALIASES ==
 <<
  [target |-> <<"s","e","r","i","a","l","n","u","m","b","e","r">>,
   alias_list |-> <<<<"s","e","r","i","a","l">>,
                   <<"s","e","r","i","a","l","n","u","m","b","e","r">>,
                   <<"s","/","n">>,
                   <<"s","n">>>>],
  [target |-> <<"m","a","n","u","f","a","c","t","u","r","e","r">>,
   alias_list |-> <<<<"m","a","n","u","f","a","c","t","u","r","e","r">>,
                   <<"m","a","k","e","r">>,
                   <<"m","a","k","e">>>>],
  [target |-> <<"i","m","p","o","r","t","e","r">>,
   alias_list |-> <<<<"i","m","p","o","r","t","e","r">>>>],
  [target |-> <<"m","o","d","e","l">>,
   alias_list |-> <<<<"m","o","d","e","l">>,
                   <<"m","d","l">>>>],
  [target |-> <<"t","y","p","e">>,
   alias_list |-> <<<<"t","y","p","e">>,
                   <<"f","i","r","e","a","r","m","t","y","p","e">>,
                   <<"g","u","n","t","y","p","e">>>>],
  [target |-> <<"c","a","l","i","b","e","r">>,
   alias_list |-> <<<<"c","a","l","i","b","e","r">>,
                   <<"c","a","l","i","b","r","e">>,
                   <<"g","a","u","g","e">>>>],
  [target |-> <<"b","a","r","r","e","l","l","e","n","g","t","h">>,
   alias_list |-> <<<<"b","a","r","r","e","l","l","e","n","g","t","h">>,
                   <<"b","a","r","r","e","l">>,
                   <<"b","b","l">>,
                   <<"l","e","n","g","t","h","o","f","b","a","r","r","e","l">>,
                   <<"b","a","r","r","e","l","l","e","n","g","t","h","(","i","n",")">>>>],
  [target |-> <<"o","v","e","r","a","l","l","l","e","n","g","t","h">>,
   alias_list |-> <<<<"o","v","e","r","a","l","l","l","e","n","g","t","h">>,
                   <<"o","a","l">>>>],
  [target |-> <<"f","i","n","i","s","h">>,
   alias_list |-> <<<<"f","i","n","i","s","h">>,
                   <<"c","o","l","o","r">>,
                   <<"c","o","l","o","u","r">>>>],
  [target |-> <<"c","o","u","n","t","r","y","o","f","m","a","n","u","f","a","c","t","u","r","e">>,
   alias_list |-> <<<<"c","o","u","n","t","r","y","o","f","m","a","n","u","f","a","c","t","u","r","e">>,
                   <<"c","o","u","n","t","r","y">>,
                   <<"m","a","n","u","f","a","c","t","u","r","e","c","o","u","n","t","r","y">>>>],
  [target |-> <<"u","p","c">>,
   alias_list |-> <<<<"u","p","c">>,
                   <<"b","a","r","c","o","d","e">>>>],
  [target |-> <<"s","k","u">>,
   alias_list |-> <<<<"s","k","u">>,
                   <<"i","t","e","m","#">>,
                   <<"i","t","e","m","n","u","m","b","e","r">>,
                   <<"p","n">>,
                   <<"p","a","r","t","n","u","m","b","e","r">>>>],
  [target |-> <<"a","c","q","u","i","s","i","t","i","o","n","d","a","t","e">>,
   alias_list |-> <<<<"a","c","q","u","i","s","i","t","i","o","n","d","a","t","e">>,
                   <<"d","a","t","e","a","c","q","u","i","r","e","d">>,
                   <<"d","a","t","e","o","f","a","c","q","u","i","s","i","t","i","o","n">>,
                   <<"r","e","c","e","i","v","e","d","d","a","t","e">>>>],
  [target |-> <<"a","c","q","u","i","r","e","d","f","r","o","m","n","a","m","e">>,
   alias_list |-> <<<<"a","c","q","u","i","r","e","d","f","r","o","m","n","a","m","e">>,
                   <<"s","u","p","p","l","i","e","r">>,
                   <<"v","e","n","d","o","r">>,
                   <<"a","c","q","u","i","r","e","d","f","r","o","m">>>>],
  [target |-> <<"a","c","q","u","i","r","e","d","f","r","o","m","a","d","d","r","e","s","s">>,
   alias_list |-> <<<<"a","c","q","u","i","r","e","d","f","r","o","m","a","d","d","r","e","s","s">>,
                   <<"s","u","p","p","l","i","e","r","a","d","d","r","e","s","s">>,
                   <<"v","e","n","d","o","r","a","d","d","r","e","s","s">>>>],
  [target |-> <<"a","c","q","u","i","r","e","d","f","r","o","m","f","f","l">>,
   alias_list |-> <<<<"a","c","q","u","i","r","e","d","f","r","o","m","f","f","l">>,
                   <<"s","u","p","p","l","i","e","r","f","f","l">>,
                   <<"v","e","n","d","o","r","f","f","l">>,
                   <<"f","f","l">>>>],
  [target |-> <<"a","c","q","u","i","r","e","d","f","r","o","m","l","i","c","e","n","s","e","t","y","p","e">>,
   alias_list |-> <<<<"a","c","q","u","i","r","e","d","f","r","o","m","l","i","c","e","n","s","e","t","y","p","e">>,
                   <<"s","u","p","p","l","i","e","r","l","i","c","e","n","s","e","t","y","p","e">>>>],
  [target |-> <<"a","c","q","u","i","r","e","d","f","r","o","m","c","i","t","y">>,
   alias_list |-> <<<<"a","c","q","u","i","r","e","d","f","r","o","m","c","i","t","y">>,
                   <<"s","u","p","p","l","i","e","r","c","i","t","y">>>>],
  [target |-> <<"a","c","q","u","i","r","e","d","f","r","o","m","s","t","a","t","e">>,
   alias_list |-> <<<<"a","c","q","u","i","r","e","d","f","r","o","m","s","t","a","t","e">>,
                   <<"s","u","p","p","l","i","e","r","s","t","a","t","e">>>>],
  [target |-> <<"a","c","q","u","i","r","e","d","f","r","o","m","z","i","p">>,
   alias_list |-> <<<<"a","c","q","u","i","r","e","d","f","r","o","m","z","i","p">>,
                   <<"s","u","p","p","l","i","e","r","z","i","p">>,
                   <<"z","i","p","c","o","d","e">>,
                   <<"z","i","p">>>>],
  [target |-> <<"a","c","q","u","i","s","i","t","i","o","n","d","o","c","u","m","e","n","t">>,
   alias_list |-> <<<<"a","c","q","u","i","s","i","t","i","o","n","d","o","c","u","m","e","n","t">>,
                   <<"i","n","v","o","i","c","e">>,
                   <<"p","o","n","u","m","b","e","r">>,
                   <<"p","o">>,
                   <<"b","o">>>>],
  [target |-> <<"d","i","s","p","o","s","i","t","i","o","n","d","a","t","e">>,
   alias_list |-> <<<<"d","i","s","p","o","s","i","t","i","o","n","d","a","t","e">>,
                   <<"d","a","t","e","o","f","d","i","s","p","o","s","i","t","i","o","n">>,
                   <<"d","a","t","e","s","o","l","d">>,
                   <<"t","r","a","n","s","f","e","r","d","a","t","e">>,
                   <<"d","i","s","p","o","s","e","d","d","a","t","e">>>>],
  [target |-> <<"d","i","s","p","o","s","e","d","t","o","n","a","m","e">>,
   alias_list |-> <<<<"d","i","s","p","o","s","e","d","t","o","n","a","m","e">>,
                   <<"c","u","s","t","o","m","e","r","n","a","m","e">>,
                   <<"b","u","y","e","r","n","a","m","e">>,
                   <<"t","r","a","n","s","f","e","r","e","e","n","a","m","e">>>>],
  [target |-> <<"d","i","s","p","o","s","e","d","t","o","a","d","d","r","e","s","s">>,
   alias_list |-> <<<<"d","i","s","p","o","s","e","d","t","o","a","d","d","r","e","s","s">>,
                   <<"c","u","s","t","o","m","e","r","a","d","d","r","e","s","s">>,
                   <<"b","u","y","e","r","a","d","d","r","e","s","s">>>>],
  [target |-> <<"d","i","s","p","o","s","e","d","t","o","c","i","t","y">>,
   alias_list |-> <<<<"d","i","s","p","o","s","e","d","t","o","c","i","t","y">>,
                   <<"c","u","s","t","o","m","e","r","c","i","t","y">>>>],
  [target |-> <<"d","i","s","p","o","s","e","d","t","o","s","t","a","t","e">>,
   alias_list |-> <<<<"d","i","s","p","o","s","e","d","t","o","s","t","a","t","e">>,
                   <<"c","u","s","t","o","m","e","r","s","t","a","t","e">>>>],
  [target |-> <<"d","i","s","p","o","s","e","d","t","o","z","i","p">>,
   alias_list |-> <<<<"d","i","s","p","o","s","e","d","t","o","z","i","p">>,
                   <<"c","u","s","t","o","m","e","r","z","i","p">>,
                   <<"z","i","p">>>>],
  [target |-> <<"d","i","s","p","o","s","e","d","t","o","f","f","l">>,
   alias_list |-> <<<<"d","i","s","p","o","s","e","d","t","o","f","f","l">>,
                   <<"d","e","s","t","i","n","a","t","i","o","n","f","f","l">>,
                   <<"r","e","c","e","i","v","e","r","f","f","l">>,
                   <<"f","f","l">>>>],
  [target |-> <<"f","o","r","m","4","4","7","3">>,
   alias_list |-> <<<<"4","4","7","3">>,
                   <<"f","o","r","m","4","4","7","3">>,
                   <<"4","4","7","3","n","u","m","b","e","r">>,
                   <<"4","4","7","3","#">>>>],
  [target |-> <<"n","i","c","s","n","u","m","b","e","r">>,
   alias_list |-> <<<<"n","i","c","s","n","u","m","b","e","r">>,
                   <<"n","i","c","s">>,
                   <<"n","t","n">>,
                   <<"b","a","c","k","g","r","o","u","n","d","c","h","e","c","k","n","u","m","b","e","r">>>>],
  [target |-> <<"n","i","c","s","s","t","a","t","u","s">>,
   alias_list |-> <<<<"n","i","c","s","s","t","a","t","u","s">>,
                   <<"b","a","c","k","g","r","o","u","n","d","s","t","a","t","u","s">>,
                   <<"s","t","a","t","u","s">>>>],
  [target |-> <<"n","i","c","s","e","x","p","i","r","a","t","i","o","n">>,
   alias_list |-> <<<<"n","i","c","s","e","x","p","i","r","a","t","i","o","n">>,
                   <<"n","i","c","s","v","a","l","i","d","u","n","t","i","l">>,
                   <<"n","t","n","e","x","p","i","r","e">>>>],
  [target |-> <<"t","r","a","n","s","a","c","t","i","o","n","n","u","m","b","e","r">>,
   alias_list |-> <<<<"t","r","a","n","s","a","c","t","i","o","n","n","u","m","b","e","r">>,
                   <<"t","r","a","n","s","#">>,
                   <<"t","t","n">>,
                   <<"n","t","n">>>>],
  [target |-> <<"p","e","r","m","i","t","n","u","m","b","e","r">>,
   alias_list |-> <<<<"p","e","r","m","i","t">>,
                   <<"p","e","r","m","i","t","n","u","m","b","e","r">>,
                   <<"c","w","f","l">>,
                   <<"c","c","w">>>>],
  [target |-> <<"p","e","r","m","i","t","e","x","p","i","r","a","t","i","o","n">>,
   alias_list |-> <<<<"p","e","r","m","i","t","e","x","p","i","r","a","t","i","o","n">>,
                   <<"p","e","r","m","i","t","e","x","p","i","r","e","s">>>>],
  [target |-> <<"b","i","r","t","h","d","a","t","e">>,
   alias_list |-> <<<<"d","o","b">>,
                   <<"d","a","t","e","o","f","b","i","r","t","h">>,
                   <<"b","i","r","t","h","d","a","t","e">>>>],
  [target |-> <<"i","d","n","u","m","b","e","r">>,
   alias_list |-> <<<<"i","d","n","u","m","b","e","r">>,
                   <<"d","r","i","v","e","r","l","i","c","e","n","s","e">>,
                   <<"d","l">>,
                   <<"i","d","e","n","t","i","f","i","c","a","t","i","o","n","n","u","m","b","e","r">>>>],
  [target |-> <<"i","d","s","t","a","t","e">>,
   alias_list |-> <<<<"i","d","s","t","a","t","e">>,
                   <<"d","l","s","t","a","t","e">>>>],
  [target |-> <<"c","o","s","t">>,
   alias_list |-> <<<<"c","o","s","t">>,
                   <<"u","n","i","t","c","o","s","t">>>>],
  [target |-> <<"p","r","i","c","e">>,
   alias_list |-> <<<<"p","r","i","c","e">>,
                   <<"s","a","l","e","p","r","i","c","e">>,
                   <<"s","e","l","l","i","n","g","p","r","i","c","e">>,
                   <<"a","m","o","u","n","t">>>>]
 >>

\* map(norm, names)
RECURSIVE map_norm(_)
map_norm(names) ==
  IF names = <<>> THEN <<>>
  ELSE <<norm(names[1])>> \o map_norm(Tail(names))

\* map(norm, alias_list+[target]) of every group, in table order
RECURSIVE GroupKeys(_)
GroupKeys(groups) ==
  IF groups = <<>> THEN <<>>
  ELSE <<map_norm(groups[1].alias_list \o <<groups[1].target>>)>> \o GroupKeys(Tail(groups))

AliasMemberKeys == GroupKeys(ALIASES)

\* ------------------------------------------------------------------------
\* difflib: SequenceMatcher (no junk: isjunk is None and the strings are
\* far shorter than the 200 characters at which autojunk starts) and
\* get_close_matches.  Positions are Python's: 0-based, ranges half-open.
\* ------------------------------------------------------------------------
Min(x, y) == IF x <= y THEN x ELSE y

\* every block a[i:i+k] == b[j:j+k] with k > 0 inside a[alo:ahi], b[blo:bhi]
MatchingBlocks(a, b, alo, ahi, blo, bhi) ==
  {m \in (alo..(ahi-1)) \X (blo..(bhi-1)) \X (1..Min(ahi-alo, bhi-blo)) :
     /\ m[1] + m[3] <= ahi
     /\ m[2] + m[3] <= bhi
     /\ \A t \in 1..m[3] : a[m[1]+t] = b[m[2]+t]}

\* The longest block; of those the one starting earliest in a; of those the
\* one starting earliest in b.  (alo, blo, 0) when nothing matches.
find_longest_match(a, b, alo, ahi, blo, bhi) ==
  LET blocks == MatchingBlocks(a, b, alo, ahi, blo, bhi)
      Better(m, o) == \/ m[3] > o[3]
                      \/ m[3] = o[3] /\ m[1] < o[1]
                      \/ m[3] = o[3] /\ m[1] = o[1] /\ m[2] < o[2]
  IN  IF blocks = {} THEN <<alo, blo, 0>>
      ELSE CHOOSE m \in blocks : \A o \in blocks \ {m} : Better(m, o)

\* The total size of get_matching_blocks(): the longest block, then the same
\* to its left and to its right.
RECURSIVE MatchCount(_, _, _, _, _, _)
MatchCount(a, b, alo, ahi, blo, bhi) ==
  LET m == find_longest_match(a, b, alo, ahi, blo, bhi)
  IN  IF m[3] = 0 THEN 0
      ELSE m[3] + MatchCount(a, b, alo, m[1], blo, m[2])
                + MatchCount(a, b, m[1]+m[3], ahi, m[2]+m[3], bhi)

\* _calculate_ratio: 2.0*matches/length, 1.0 when length is 0; as a fraction
calculate_ratio(matches, length) ==
  IF length # 0 THEN [num |-> 2 * matches, den |-> length]
               ELSE [num |-> 1, den |-> 1]

ratio(a, b) ==
  calculate_ratio(MatchCount(a, b, 0, Len(a), 0, Len(b)), Len(a) + Len(b))

\* quick_ratio: the characters the two strings share, counted with multiplicity
quick_ratio(a, b) ==
  LET Count(s, ch) == Cardinality({i \in DOMAIN s : s[i] = ch})
      chars == Range(a) \cap Range(b)
      RECURSIVE Sum(_)
      Sum(S) == IF S = {} THEN 0
                ELSE LET c == CHOOSE c \in S : TRUE
                     IN  Min(Count(a, c), Count(b, c)) + Sum(S \ {c})
  IN  calculate_ratio(Sum(chars), Len(a) + Len(b))

real_quick_ratio(a, b) ==
  calculate_ratio(Min(Len(a), Len(b)), Len(a) + Len(b))

\* score >= cutoff, the cutoff in hundredths
ScoreAtLeast(score, cutoff) == 100 * score.num >= cutoff * score.den

ScoreLess(s, t) == s.num * t.den < t.num * s.den

\* (score, x) < (score', x') as Python orders tuples
PairLess(p, q) ==
  \/ ScoreLess(p.score, q.score)
  \/ ~ScoreLess(q.score, p.score) /\ StrLess(p.x, q.x)

\* get_close_matches(word, possibilities, n=1, cutoff): raises ValueError
\* for a cutoff outside [0.0, 1.0]; else the best of the candidates whose
\* three ratios reach the cutoff, which nlargest(1, result) takes as
\* max(result) over the (score, x) pairs.
get_close_matches(word, possibilities, cutoff) ==
  IF ~(0 <= cutoff /\ cutoff <= 100)
  THEN [raised |-> "ValueError", matches |-> <<>>]
  ELSE LET result ==
             {[score |-> ratio(possibilities[i], word), x |-> possibilities[i]] :
                i \in {j \in DOMAIN possibilities :
                         /\ ScoreAtLeast(real_quick_ratio(possibilities[j], word), cutoff)
                         /\ ScoreAtLeast(quick_ratio(possibilities[j], word), cutoff)
                         /\ ScoreAtLeast(ratio(possibilities[j], word), cutoff)}}
       IN  IF result = {} THEN [raised |-> "", matches |-> <<>>]
           ELSE [raised |-> "",
                 matches |-> <<(CHOOSE p \in result :
                                  \A q \in result \ {p} : PairLess(q, p)).x>>]

\* ------------------------------------------------------------------------
\* build_mapping
\* ------------------------------------------------------------------------
\* atf_norm_map = {norm(c): c for c in atf_cols}: a key keeps the place of its
\* first column and takes the value of each later column with the same key.
RECURSIVE norm_map(_)
norm_map(atf_cols) ==
  IF atf_cols = <<>> THEN <<>>
  ELSE LET c == atf_cols[Len(atf_cols)]
       IN  DictSet(norm_map(SubSeq(atf_cols, 1, Len(atf_cols) - 1)), norm(c), c)

\* OverrideEntry with the reference itself recorded in the normalized branch
\* (mapping[fb_col] = atf_src) instead of the indexed column
OverrideEntry_RawRef(atf_cols, norm_index, atf_src) ==
  IF atf_src \in Range(atf_cols)
  THEN [source |-> atf_src, shown |-> atf_src, kind |-> "OVERRIDE"]
  ELSE IF DictHas(norm_index, norm(atf_src))
  THEN [source |-> atf_src, shown |-> atf_src, kind |-> "OVERRIDE(norm)"]
  ELSE [source |-> None, shown |-> <<>>, kind |-> "OVERRIDE-NOTFOUND"]

\* One override (the body of the first loop): what is stored in mapping
\* (source) and what is appended to details (shown, kind).
OverrideEntry(atf_cols, norm_index, atf_src) ==
  IF atf_src \in Range(atf_cols)
  THEN [source |-> atf_src, shown |-> atf_src, kind |-> "OVERRIDE"]
  ELSE LET key == norm(atf_src)
       IN  IF DictHas(norm_index, key)
           THEN [source |-> DictAt(norm_index, key),
                 shown  |-> DictAt(norm_index, key),
                 kind   |-> "OVERRIDE(norm)"]
           ELSE [source |-> None, shown |-> <<>>, kind |-> "OVERRIDE-NOTFOUND"]

\* AlreadyMapped as "if mapping.get(fb_col): continue": a column whose
\* override was not found is resolved again
AlreadyMapped_Truthy(map, fb_col) == Truthy(DictGet(map, fb_col))

\* if fb_col in mapping: continue
AlreadyMapped(map, fb_col) == DictHas(map, fb_col)

\* DirectHit with the target name looked up as it is written
DirectHit_RawName(norm_index, fb_col) == DictHas(norm_index, fb_col)

\* fb_key = norm(fb_col); if fb_key in atf_norm_map
DirectHit(norm_index, fb_col) == DictHas(norm_index, norm(fb_col))

\* fb_key == target or fb_key in map(norm, alias_list+[target])
GroupMatches(g, fb_key) ==
  fb_key = ALIASES[g].target \/ fb_key \in Range(AliasMemberKeys[g])

\* The inner loop over alias_list+[target]: the index entry of the first
\* member whose key is in the index; hit is left as it was when there is none.
GroupHit(g, norm_index, hit) ==
  LET keys == AliasMemberKeys[g]
      found == {i \in DOMAIN keys : DictHas(norm_index, keys[i])}
  IN  IF found = {} THEN hit
      ELSE DictAt(norm_index, keys[CHOOSE i \in found : \A j \in found : i <= j])

\* AliasScan with the loop left after the first group that matches fb_key,
\* whether or not it gave a hit
RECURSIVE AliasScan_FirstGroupOnly(_, _, _, _)
AliasScan_FirstGroupOnly(g, norm_index, fb_key, hit) ==
  IF g > Len(ALIASES) THEN hit
  ELSE IF GroupMatches(g, fb_key) THEN GroupHit(g, norm_index, hit)
  ELSE AliasScan_FirstGroupOnly(g + 1, norm_index, fb_key, hit)

\* The loop over ALIASES.items() from group g on: a group is scanned when it
\* matches fb_key, and the loop ends at the first group after which hit is true.
RECURSIVE AliasScan(_, _, _, _)
AliasScan(g, norm_index, fb_key, hit) ==
  IF g > Len(ALIASES) THEN hit
  ELSE LET h == IF GroupMatches(g, fb_key) THEN GroupHit(g, norm_index, hit) ELSE hit
       IN  IF Truthy(h) THEN h ELSE AliasScan(g + 1, norm_index, fb_key, h)

\* One target column of the second loop that is not yet in mapping:
\* direct, alias, fuzzy, missing; raised names the exception of the fuzzy step.
Resolve(fb_col, norm_index, cutoff) ==
  LET fb_key == norm(fb_col)
      hit    == AliasScan(1, norm_index, fb_key, None)
      cand   == get_close_matches(fb_key, DictKeys(norm_index), cutoff)
  IN  IF DirectHit(norm_index, fb_col)
      THEN [raised |-> "", source |-> DictAt(norm_index, fb_key),
            shown |-> DictAt(norm_index, fb_key), kind |-> "DIRECT"]
      ELSE IF Truthy(hit)
      THEN [raised |-> "", source |-> hit, shown |-> hit, kind |-> "ALIAS"]
      ELSE IF cand.raised # ""
      THEN [raised |-> cand.raised, source |-> None, shown |-> <<>>, kind |-> ""]
      ELSE IF cand.matches # <<>>
      THEN [raised |-> "", source |-> DictAt(norm_index, cand.matches[1]),
            shown |-> DictAt(norm_index, cand.matches[1]), kind |-> "FUZZY"]
      ELSE [raised |-> "", source |-> None, shown |-> <<>>, kind |-> "MISSING"]

\* ok = sum(1 for c in fb_cols if mapping.get(c))
MappedCount(fb_cols, map) ==
  Cardinality({j \in DOMAIN fb_cols : Truthy(DictGet(map, fb_cols[j]))})

\* ------------------------------------------------------------------------
\* main: what follows build_mapping
\* ------------------------------------------------------------------------
\* The names the module binds at import; main also uses sys and
\* read_overrides uses json, which are not among them.
ImportedNames == {"argparse", "logging", "get_close_matches", "pd", "np", "Path", "yaml"}

\* str.strip() for the blank
RECURSIVE strip(_)
strip(s) ==
  IF s = <<>> THEN s
  ELSE IF s[1] = " " THEN strip(Tail(s))
  ELSE IF s[Len(s)] = " " THEN strip(SubSeq(s, 1, Len(s) - 1))
  ELSE s

\* out_df after the loop over mapping.items(): the columns of the template,
\* then every key of mapping that is not one of them; each with the source
\* column copied into it, or None for NaN.
RECURSIVE FillOutput(_, _, _)
FillOutput(out, map, atf_cols) ==
  IF map = <<>> THEN out
  ELSE LET src == map[1].v
           val == IF Truthy(src) /\ src \in Range(atf_cols) THEN src ELSE None
       IN  FillOutput(DictSet(out, map[1].k, val), Tail(map), atf_cols)

\* MissingColumns as [c for c in fb_columns if c not in mapping]
MissingColumns_NotInMapping(fb_cols, map) ==
  SelectSeq(fb_cols, LAMBDA c : ~DictHas(map, c))

\* missing = [c for c in fb_columns if not mapping.get(c)]
MissingColumns(fb_cols, map) ==
  SelectSeq(fb_cols, LAMBDA c : ~Truthy(DictGet(map, c)))

\* k in key, for strings: key holds k as a substring
Contains(key, k) ==
  \E p \in 0..(Len(key) - Len(k)) : \A t \in 1..Len(k) : key[p + t] = k[t]

\* The (keywords, hint) rules of the guidance loop, in the order of the code;
\* a hint is named by its leading words.
GuidanceRules ==
 <<
  [keywords |-> <<<<"s","e","r","i","a","l">>,
                 <<"s","n">>>>,
   hint |-> "Numero de serie"],
  [keywords |-> <<<<"m","a","n","u","f","a","c","t","u","r","e","r">>,
                 <<"m","f","r">>,
                 <<"m","a","k","e","r">>,
                 <<"m","a","k","e">>>>,
   hint |-> "Fabricante"],
  [keywords |-> <<<<"i","m","p","o","r","t","e","r">>>>,
   hint |-> "Importador"],
  [keywords |-> <<<<"m","o","d","e","l">>>>,
   hint |-> "Modelo"],
  [keywords |-> <<<<"c","a","l","i","b","e","r">>,
                 <<"g","a","u","g","e">>>>,
   hint |-> "Calibre/ga"],
  [keywords |-> <<<<"t","y","p","e">>>>,
   hint |-> "Tipo"],
  [keywords |-> <<<<"b","a","r","r","e","l">>,
                 <<"l","e","n","g","t","h">>,
                 <<"o","a","l">>>>,
   hint |-> "Comprimento de cano/OAL"],
  [keywords |-> <<<<"f","i","n","i","s","h">>,
                 <<"c","o","l","o","r">>>>,
   hint |-> "Acabamento/cor"],
  [keywords |-> <<<<"u","p","c">>,
                 <<"s","k","u">>>>,
   hint |-> "UPC/SKU"],
  [keywords |-> <<<<"a","c","q">>,
                 <<"a","c","q","u","i","s","i","t","i","o","n">>,
                 <<"r","e","c","e","i","v","e","d">>,
                 <<"s","o","u","r","c","e">>,
                 <<"s","u","p","p","l","i","e","r">>,
                 <<"v","e","n","d","o","r">>>>,
   hint |-> "Dados de aquisicao"],
  [keywords |-> <<<<"d","i","s","p","o">>,
                 <<"d","i","s","p","o","s","e">>,
                 <<"t","r","a","n","s","f","e","r","e","e">>,
                 <<"c","u","s","t","o","m","e","r">>,
                 <<"b","u","y","e","r">>,
                 <<"4","4","7","3">>>>,
   hint |-> "Dados de disposicao"],
  [keywords |-> <<<<"n","i","c","s">>,
                 <<"t","t","n">>,
                 <<"p","o","c">>,
                 <<"b","a","c","k","g","r","o","u","n","d">>>>,
   hint |-> "Background"],
  [keywords |-> <<<<"f","f","l">>,
                 <<"l","i","c","e","n","s","e">>>>,
   hint |-> "FFL"],
  [keywords |-> <<<<"c","o","s","t">>,
                 <<"p","r","i","c","e">>,
                 <<"a","m","o","u","n","t">>,
                 <<"m","s","r","p">>>>,
   hint |-> "Valores"]
 >>

FallbackHint == "Verificar notas de entrada"

\* The hints of one missing column: key = col.lower(), every rule one of
\* whose keywords is in key, in order; the fallback when there is none.
Hints(col) ==
  LET key == [p \in DOMAIN col |-> lower(col[p])]
      Fires(r) == \E w \in DOMAIN GuidanceRules[r].keywords :
                     Contains(key, GuidanceRules[r].keywords[w])
      RECURSIVE Collect(_)
      Collect(r) == IF r > Len(GuidanceRules) THEN <<>>
                    ELSE (IF Fires(r) THEN <<GuidanceRules[r].hint>> ELSE <<>>)
                         \o Collect(r + 1)
  IN  IF Collect(1) = <<>> THEN <<FallbackHint>> ELSE Collect(1)

\* sys.exit(code), or any other use of sys: the name is not bound, so the
\* statement raises NameError and the interpreter ends with status 1.
SysExit(code) ==
  IF "sys" \in ImportedNames
  THEN [status |-> code, exc |-> "SystemExit"]
  ELSE [status |-> 1, exc |-> "NameError"]

\* ------------------------------------------------------------------------
\* The inputs that are enumerated
\* ------------------------------------------------------------------------
SourcePool ==
  { <<"M","O","D","E","L">>,
    <<"M","o","d","e","l","1">>,
    <<"M","o","d","e","l"," ","1">>,
    <<"M","o","d","e","l","2">>,
    <<"T","T","N">> }

TargetPool ==
  { <<"M","o","d","e","l">>,
    <<"N","T","N">>,
    <<"M","d","l">> }

OverrideKeyPool ==
  { <<"M","o","d","e","l">>,
    <<"N","T","N">> }

OverrideRefPool ==
  { <<"M","O","D","E","L">>,
    <<"m","o","d","e","l">> }

\* --fuzzy-cutoff in hundredths: the default, and one outside [0, 1]
CutoffPool == {84, 150}

\* The sequences of 1 to n distinct members of S (a header row as pandas
\* hands it over: the same name does not occur twice)
DistinctSeqs(S, n) ==
  UNION {{s \in [1..m -> S] : \A p, q \in 1..m : p # q => s[p] # s[q]} : m \in 1..n}

\* The override files: at most MaxOverrides rows, no target named twice
OverrideFiles ==
  UNION {{s \in [1..m -> [k : OverrideKeyPool, v : OverrideRefPool]] :
            \A p, q \in 1..m : p # q => s[p].k # s[q].k} : m \in 0..MaxOverrides}

\* {str(r["FastBound Column"]).strip(): str(r["ATF Source"]).strip() for ...}
RECURSIVE csv_overrides(_)
csv_overrides(rows) ==
  IF rows = <<>> THEN <<>>
  ELSE LET r == rows[Len(rows)]
       IN  DictSet(csv_overrides(SubSeq(rows, 1, Len(rows) - 1)), strip(r.k), strip(r.v))

\* read_overrides: the mapping it returns, or the exception it raises
read_overrides(fmt, rows, has_yaml) ==
  CASE fmt = "absent" -> [raised |-> "FileNotFoundError", value |-> <<>>]
    [] fmt = ".csv"   -> [raised |-> "", value |-> csv_overrides(rows)]
    [] fmt = ".json"  -> IF "json" \in ImportedNames
                         THEN [raised |-> "", value |-> rows]
                         ELSE [raised |-> "NameError", value |-> <<>>]
    [] fmt = ".yaml"  -> IF has_yaml
                         THEN [raised |-> "", value |-> rows]
                         ELSE [raised |-> "RuntimeError", value |-> <<>>]
    [] OTHER          -> [raised |-> "ValueError", value |-> <<>>]

\* ------------------------------------------------------------------------
\* The state
\* ------------------------------------------------------------------------
VARIABLES
  pc,             \* where main is
  strict,         \* args.strict
  fuzzy_cutoff,   \* args.fuzzy_cutoff, in hundredths
  atf_columns,    \* list(atf_df.columns)
  fb_columns,     \* list(fastbound_df.columns)
  overrides,      \* the overrides dict
  atf_norm_map,   \* build_mapping: normalized key -> source column
  mapping,        \* build_mapping: target column -> source column or None
  details,        \* build_mapping: (fb_col, atf_src, match type)
  cursor,         \* the position of the running loop of build_mapping
  bm,             \* build_mapping: "idle", "running", "returned", "raised"
  out_df,         \* the columns of the output sheet, each with its source
  guidance_rows,  \* the rows of the Missing & Guidance sheet
  log,            \* the log records emitted
  exc,            \* the exception that ended the run, "" when none
  exit_status     \* the exit status of the process, -1 while it runs

vars == <<pc, strict, fuzzy_cutoff, atf_columns, fb_columns, overrides,
          atf_norm_map, mapping, details, cursor, bm, out_df, guidance_rows,
          log, exc, exit_status>>

inputs == <<strict, fuzzy_cutoff, atf_columns, fb_columns, overrides>>

resolver == <<atf_norm_map, mapping, details, cursor, bm>>

Init ==
  /\ pc = "check_files"
  /\ strict \in BOOLEAN
  /\ fuzzy_cutoff \in CutoffPool
  /\ atf_columns = <<>>
  /\ fb_columns = <<>>
  /\ overrides = <<>>
  /\ atf_norm_map = <<>>
  /\ mapping = <<>>
  /\ details = <<>>
  /\ cursor = 0
  /\ bm = "idle"
  /\ out_df = <<>>
  /\ guidance_rows = <<>>
  /\ log = <<>>
  /\ exc = ""
  /\ exit_status = -1

LogRecord(msg, args) == [msg |-> msg, args |-> args]

\* The run ends with an exception nobody catches: traceback, status 1
Uncaught(name) ==
  /\ pc' = "exit"
  /\ exc' = name
  /\ exit_status' = 1

\* if not atf_path.exists(): ... if not fb_path.exists(): ...
CheckFiles ==
  /\ pc = "check_files"
  /\ \E atf_exists \in BOOLEAN, fb_exists \in BOOLEAN :
       IF atf_exists /\ fb_exists
       THEN /\ pc' = "read_sheets"
            /\ UNCHANGED <<log, exc, exit_status>>
       ELSE /\ log' = Append(log, LogRecord(IF ~atf_exists THEN "ATF nao encontrado"
                                            ELSE "Template FastBound nao encontrado", <<>>))
            /\ pc' = "exit"
            /\ exc' = SysExit(1).exc
            /\ exit_status' = SysExit(1).status
  /\ UNCHANGED <<inputs, resolver, out_df, guidance_rows>>

\* The two header rows
ReadSheets ==
  /\ pc = "read_sheets"
  /\ \E a \in DistinctSeqs(SourcePool, MaxSources), f \in DistinctSeqs(TargetPool, MaxTargets) :
       /\ atf_columns' = a
       /\ fb_columns' = f
  /\ pc' = "read_overrides"
  /\ UNCHANGED <<strict, fuzzy_cutoff, overrides, resolver, out_df, guidance_rows,
                 log, exc, exit_status>>

\* overrides = read_overrides(Path(args.overrides)) if args.overrides else {}
ReadOverrides ==
  /\ pc = "read_overrides"
  /\ \E fmt \in {"none", "absent", ".csv", ".json", ".yaml", ".txt"},
        rows \in OverrideFiles, has_yaml \in BOOLEAN :
       LET r == IF fmt = "none" THEN [raised |-> "", value |-> <<>>]
                ELSE read_overrides(fmt, rows, has_yaml)
       IN  IF r.raised = ""
           THEN /\ overrides' = r.value
                /\ pc' = "index"
                /\ UNCHANGED <<exc, exit_status>>
           ELSE /\ Uncaught(r.raised)
                /\ UNCHANGED overrides
  /\ UNCHANGED <<strict, fuzzy_cutoff, atf_columns, fb_columns, resolver, out_df,
                 guidance_rows, log>>

\* Where build_mapping goes after the loop over the overrides
AfterPass1 == IF fb_columns = <<>> THEN "return" ELSE "pass2"

\* build_mapping is called: the index, the empty mapping and details
BuildIndex ==
  /\ pc = "index"
  /\ atf_norm_map' = norm_map(atf_columns)
  /\ mapping' = <<>>
  /\ details' = <<>>
  /\ cursor' = 1
  /\ bm' = "running"
  /\ pc' = IF overrides = <<>> THEN AfterPass1 ELSE "pass1"
  /\ UNCHANGED <<inputs, out_df, guidance_rows, log, exc, exit_status>>

\* One turn of: for fb_col, atf_src in overrides.items()
ApplyOverride ==
  /\ pc = "pass1"
  /\ LET fb_col == overrides[cursor].k
         e == OverrideEntry(atf_columns, atf_norm_map, overrides[cursor].v)
     IN  /\ mapping' = DictSet(mapping, fb_col, e.source)
         /\ details' = Append(details, [col |-> fb_col, src |-> e.shown, kind |-> e.kind])
  /\ cursor' = IF cursor = Len(overrides) THEN 1 ELSE cursor + 1
  /\ pc' = IF cursor = Len(overrides) THEN AfterPass1 ELSE "pass1"
  /\ UNCHANGED <<inputs, atf_norm_map, bm, out_df, guidance_rows, log, exc, exit_status>>

\* One turn of: for fb_col in fb_cols
ResolveTarget ==
  /\ pc = "pass2"
  /\ LET fb_col == fb_columns[cursor]
         r == Resolve(fb_col, atf_norm_map, fuzzy_cutoff)
         Advance == /\ cursor' = cursor + 1
                    /\ pc' = IF cursor = Len(fb_columns) THEN "return" ELSE "pass2"
                    /\ UNCHANGED <<bm, exc, exit_status>>
     IN  IF AlreadyMapped(mapping, fb_col)
         THEN /\ UNCHANGED <<mapping, details>>
              /\ Advance
         ELSE IF r.raised # ""
         THEN /\ Uncaught(r.raised)
              /\ bm' = "raised"
              /\ UNCHANGED <<mapping, details, cursor>>
         ELSE /\ mapping' = DictSet(mapping, fb_col, r.source)
              /\ details' = Append(details, [col |-> fb_col, src |-> r.shown, kind |-> r.kind])
              /\ Advance
  /\ UNCHANGED <<inputs, atf_norm_map, out_df, guidance_rows, log>>

\* The summary log and: return mapping, details
ReturnMapping ==
  /\ pc = "return"
  /\ log' = Append(log, LogRecord("Mapeados",
                     <<MappedCount(fb_columns, mapping), Len(fb_columns)>>))
  /\ bm' = "returned"
  /\ pc' = "output"
  /\ UNCHANGED <<inputs, atf_norm_map, mapping, details, cursor, out_df, guidance_rows,
                 exc, exit_status>>

\* The output sheet and the writer block: out_df, then the Missing &
\* Guidance rows (the Mapping Report sheet is details as it stands)
WriteWorkbook ==
  /\ pc = "output"
  /\ out_df' = FillOutput([j \in DOMAIN fb_columns |-> [k |-> fb_columns[j], v |-> None]],
                          mapping, atf_columns)
  /\ LET missing == MissingColumns(fb_columns, mapping)
     IN  guidance_rows' = [j \in DOMAIN missing |->
                             [col |-> missing[j], hints |-> Hints(missing[j])]]
  /\ pc' = "status"
  /\ UNCHANGED <<inputs, resolver, log, exc, exit_status>>

\* missing_count = sum(1 for c in fb_columns if not mapping.get(c))
MissingCount(fb_cols, map) ==
  Cardinality({j \in DOMAIN fb_cols : ~Truthy(DictGet(map, fb_cols[j]))})

\* The exit status: with missing columns under --strict the print to
\* sys.stderr and sys.exit(2); else the two closing log records
ExitStatus ==
  /\ pc = "status"
  /\ LET missing_count == MissingCount(fb_columns, mapping)
     IN  IF missing_count # 0 /\ strict
         THEN /\ exc' = SysExit(2).exc
              /\ exit_status' = SysExit(2).status
              /\ UNCHANGED log
         ELSE /\ log' = log \o <<LogRecord("Concluido", <<>>),
                                 LogRecord("Colunas FastBound",
                                           <<Len(fb_columns),
                                             Len(fb_columns) - missing_count,
                                             missing_count>>)>>
              /\ exit_status' = 0
              /\ UNCHANGED exc
  /\ pc' = "exit"
  /\ UNCHANGED <<inputs, resolver, out_df, guidance_rows>>

Next ==
  \/ CheckFiles
  \/ ReadSheets
  \/ ReadOverrides
  \/ BuildIndex
  \/ ApplyOverride
  \/ ResolveTarget
  \/ ReturnMapping
  \/ WriteWorkbook
  \/ ExitStatus

Spec == Init /\ [][Next]_vars

\* ------------------------------------------------------------------------
\* The claims
\* ------------------------------------------------------------------------
OverrideKinds == {"OVERRIDE", "OVERRIDE(norm)", "OVERRIDE-NOTFOUND"}

SourcedKinds == {"OVERRIDE", "OVERRIDE(norm)", "DIRECT", "ALIAS", "FUZZY"}

UnsourcedKinds == {"OVERRIDE-NOTFOUND", "MISSING"}

HasOverride(col) == \E j \in DOMAIN overrides : overrides[j].k = col

Returned == bm = "returned"

\* The Missing & Guidance sheet has been built
ReportsWritten == pc = "status" \/ (pc = "exit" /\ Returned)

\* The place of a column in sourceColumns
Position(col) == CHOOSE j \in DOMAIN atf_columns : atf_columns[j] = col

\* The first column of sourceColumns with the normalized key
FirstWithKey(key) ==
  atf_columns[CHOOSE j \in DOMAIN atf_columns :
                /\ norm(atf_columns[j]) = key
                /\ \A h \in DOMAIN atf_columns : norm(atf_columns[h]) = key => j <= h]

\* The entries the second pass recorded
Pass2Entries == {j \in DOMAIN details : details[j].kind \notin OverrideKinds}

\* The alias groups that hold the key
GroupsOf(key) == {g \in DOMAIN ALIASES : key \in Range(AliasMemberKeys[g])}

\* The group has a member whose key is in the source index
GroupInIndex(g) == \E m \in DOMAIN AliasMemberKeys[g] : DictHas(atf_norm_map, AliasMemberKeys[g][m])

\* The source column of the first member of the group that is in the index
FirstMemberSource(g) ==
  LET keys == AliasMemberKeys[g]
  IN  DictAt(atf_norm_map,
             keys[CHOOSE m \in DOMAIN keys :
                    /\ DictHas(atf_norm_map, keys[m])
                    /\ \A h \in DOMAIN keys : DictHas(atf_norm_map, keys[h]) => m <= h])

Least(S) == CHOOSE g \in S : \A h \in S : g <= h

\* C1: when build_mapping returns, mapping and details have exactly one entry
\* per target column, in target-column order, whatever the overrides are.
C1_OnePerTargetInOrder ==
  Returned =>
    /\ Len(details) = Len(fb_columns)
    /\ \A j \in DOMAIN details : details[j].col = fb_columns[j]
    /\ DictKeys(mapping) = fb_columns

\* C2: an entry recorded for a target column that has an override is of an
\* override kind; the second pass records nothing for such a column, and the
\* column has one entry only.
C2_OverridePriority ==
  /\ \A j \in DOMAIN details :
       HasOverride(details[j].col) => details[j].kind \in OverrideKinds
  /\ \A j, h \in DOMAIN details :
       (HasOverride(details[j].col) /\ details[j].col = details[h].col) => j = h

\* C2 witness: build_mapping has returned, a target column's override was not
\* found, and the second pass would have resolved the column.
C2_Witness ==
  /\ Returned
  /\ \E j \in DOMAIN details :
       /\ details[j].kind = "OVERRIDE-NOTFOUND"
       /\ details[j].col \in Range(fb_columns)
       /\ Resolve(details[j].col, atf_norm_map, fuzzy_cutoff).kind \in {"ALIAS", "FUZZY"}

\* C3: the source index maps a normalized key to the first column of
\* sourceColumns with that key, and every resolution made through the index
\* points to that first column.
C3_FirstOccurrenceWins ==
  bm # "idle" =>
    /\ \A e \in DOMAIN atf_norm_map :
         atf_norm_map[e].v = FirstWithKey(atf_norm_map[e].k)
    /\ \A j \in DOMAIN details :
         details[j].kind \in {"OVERRIDE(norm)", "DIRECT", "ALIAS", "FUZZY"}
           => details[j].src = FirstWithKey(norm(details[j].src))

\* C4: a run with --strict in which a target column's entry is MISSING or
\* OVERRIDE-NOTFOUND ends with exit status 2 and without the record
\* "Concluido".
C4_StrictExitStatus ==
  (/\ pc = "exit"
   /\ Returned
   /\ strict
   /\ \E j \in DOMAIN details :
        /\ details[j].col \in Range(fb_columns)
        /\ details[j].kind \in UnsourcedKinds)
    => /\ exit_status = 2
       /\ \A j \in DOMAIN log : log[j].msg # "Concluido"

\* C5: build_mapping never raises, whatever the cutoff is.
C5_NeverRaises == bm # "raised"

\* C6: a target column without an override whose normalized name is the
\* normalized name of a source column is recorded as DIRECT, with the index
\* entry of that key as its source.
C6_DirectPrecedence ==
  \A c \in Range(fb_columns) :
    LET key == norm(c)
    IN  (/\ ~HasOverride(c)
         /\ \E s \in Range(atf_columns) : norm(s) = key)
          => /\ Returned => \E j \in DOMAIN details : details[j].col = c
             /\ \A j \in DOMAIN details :
                  details[j].col = c =>
                    /\ details[j].kind = "DIRECT"
                    /\ details[j].src = DictAt(atf_norm_map, key)
                    /\ DictGet(mapping, c) = DictAt(atf_norm_map, key)

\* C6 witness: a DIRECT entry for a column without an override that the
\* alias step would resolve too and for which another source key reaches the
\* cutoff.
C6_Witness ==
  /\ Returned
  /\ \E j \in DOMAIN details :
       /\ details[j].kind = "DIRECT"
       /\ ~HasOverride(details[j].col)
       /\ Truthy(AliasScan(1, atf_norm_map, norm(details[j].col), None))
       /\ \E e \in DOMAIN atf_norm_map :
            /\ atf_norm_map[e].k # norm(details[j].col)
            /\ ScoreAtLeast(ratio(atf_norm_map[e].k, norm(details[j].col)), fuzzy_cutoff)

GuidanceColumns == [j \in DOMAIN guidance_rows |-> guidance_rows[j].col]

KindOf(col) == details[CHOOSE j \in DOMAIN details : details[j].col = col].kind

\* C7 (as stated): the guidance rows are those of the target columns whose
\* kind is MISSING; an OVERRIDE-NOTFOUND column has no row.
C7_GuidanceOnlyMissing ==
  ReportsWritten =>
    GuidanceColumns = SelectSeq(fb_columns, LAMBDA c : KindOf(c) = "MISSING")

\* C7 (amended): the guidance rows are those of the target columns left
\* without a source, MISSING and OVERRIDE-NOTFOUND alike, in target order.
C7_GuidanceUnsourced ==
  ReportsWritten =>
    GuidanceColumns = SelectSeq(fb_columns, LAMBDA c : KindOf(c) \in UnsourcedKinds)

\* C7 witness: a guidance row for a MISSING column and one for an
\* OVERRIDE-NOTFOUND column.
C7_Witness ==
  /\ ReportsWritten
  /\ \E j, h \in DOMAIN guidance_rows :
       /\ KindOf(guidance_rows[j].col) = "MISSING"
       /\ KindOf(guidance_rows[h].col) = "OVERRIDE-NOTFOUND"

\* C8 (as stated): an ALIAS entry comes from the first group that holds the
\* target key: that group has a member in the index and the source is its
\* first such member.
C8_FirstGroupOnly ==
  \A j \in Pass2Entries :
    details[j].kind = "ALIAS" =>
      LET g == Least(GroupsOf(norm(details[j].col)))
      IN  /\ GroupInIndex(g)
          /\ details[j].src = FirstMemberSource(g)

\* C8 (amended): the groups that hold the target key are tried in table
\* order until one has a member in the index; the entry is ALIAS exactly
\* when there is such a group, and its source is the first member in the
\* index of the first such group.
C8_FirstGroupWithHit ==
  \A j \in Pass2Entries :
    details[j].kind # "DIRECT" =>
      LET hits == {g \in GroupsOf(norm(details[j].col)) : GroupInIndex(g)}
      IN  /\ details[j].kind = "ALIAS" <=> hits # {}
          /\ details[j].kind = "ALIAS" => details[j].src = FirstMemberSource(Least(hits))

\* C8 witness: an ALIAS entry resolved through a later group, the first group
\* that holds the target key having no member in the index.
C8_Witness ==
  /\ Returned
  /\ \E j \in Pass2Entries :
       /\ details[j].kind = "ALIAS"
       /\ ~GroupInIndex(Least(GroupsOf(norm(details[j].col))))

\* C9: a FUZZY entry is recorded when the best score reaches the cutoff; its
\* source has the best score, and of the sources with the best score it is
\* the one that comes first in sourceColumns.
C9_FuzzyTieEarliest ==
  \A j \in Pass2Entries :
    details[j].kind \in {"FUZZY", "MISSING"} =>
      LET word == norm(details[j].col)
          Score(key) == ratio(key, word)
          Reaches(e) == ScoreAtLeast(Score(atf_norm_map[e].k), fuzzy_cutoff)
      IN  /\ details[j].kind = "FUZZY" <=> \E e \in DOMAIN atf_norm_map : Reaches(e)
          /\ details[j].kind = "FUZZY" =>
               \A e \in DOMAIN atf_norm_map :
                 /\ ~ScoreLess(Score(norm(details[j].src)), Score(atf_norm_map[e].k))
                 /\ ~ScoreLess(Score(atf_norm_map[e].k), Score(norm(details[j].src)))
                      => Position(details[j].src) <= Position(atf_norm_map[e].v)

\* C10: the source of an entry is a column of sourceColumns when the kind is
\* OVERRIDE, OVERRIDE(norm), DIRECT, ALIAS or FUZZY, and is none when the
\* kind is OVERRIDE-NOTFOUND or MISSING; mapping holds the same source.
C10_SourceIsInputColumn ==
  /\ \A j \in DOMAIN details :
       /\ details[j].kind \in SourcedKinds \cup UnsourcedKinds
       /\ details[j].kind \in SourcedKinds =>
            /\ details[j].src \in Range(atf_columns)
            /\ DictGet(mapping, details[j].col) = details[j].src
       /\ details[j].kind \in UnsourcedKinds =>
            /\ details[j].src = <<>>
            /\ DictHas(mapping, details[j].col)
            /\ DictAt(mapping, details[j].col) = None
  /\ \A e \in DOMAIN mapping :
       /\ mapping[e].v = None \/ mapping[e].v \in Range(atf_columns)
       /\ \E j \in DOMAIN details : details[j].col = mapping[e].k

\* C10 witness: a returned trace with an override resolved by normalization
\* and a column left MISSING.
C10_Witness ==
  /\ Returned
  /\ \E j, h \in DOMAIN details :
       /\ details[j].kind = "OVERRIDE(norm)"
       /\ details[h].kind = "MISSING"
====
